---- MODULE Spec2Model ----
(***************************************************************************)
(* The chatbot-box server (src/server.js): a corpus store (siteData.txt),  *)
(* the corpus builder scrapeWebsite, the startup check initializeData and  *)
(* the HTTP handlers /debug, /rescrape, /force-refresh and /chat.          *)
(*                                                                         *)
(* Node runs every handler on one thread: a handler runs without           *)
(* interruption from one await to the next.  Each action below is one      *)
(* such run-to-completion segment.  Texts are modelled by their length     *)
(* and, for a scraped corpus, by the list of page blocks they hold.        *)
(*                                                                         *)
(* Spec and SpecChat are the server with store writes that succeed;        *)
(* SpecWrite adds writes that fail, SpecPages splits the page loop at its  *)
(* awaits, SpecExtract is the content extraction of scrapePage alone and   *)
(* SpecPart000 is the startup of the older variant src/unnamed/part_000.   *)
(***************************************************************************)
EXTENDS Integers, Sequences, FiniteSets, TLC

VARIABLES
    file,     \* the Corpus Store siteData.txt: a text, or Missing
    init,     \* position of initializeData(): "start", "building", "done"
    builds,   \* the scrapeWebsite() calls in flight, one per slot
    nbuilds,  \* number of scrapeWebsite() calls started so far
    chat,     \* the POST /chat handler: "idle" or "awaiting" the completion
    res,      \* the last thing a handler did towards its caller
    html,     \* the document scrapePage is extracting text from, or NoDocument
    cleanText \* the text extracted from it, or NotExtracted

vars == <<file, init, builds, nbuilds, chat, res, html, cleanText>>

---------------------------------------------------------------------------
\* Program constants

\* `scrapedText.length < 100`, `existingData.length > 100`,
\* `hasContent: siteData.length > 100`, `siteData.length < 100`
MIN_CORPUS == 100

\* `text.length > 50`
PAGE_MIN == 50

\* `message.length > 500`
MAX_MESSAGE == 500

\* length of the static fallback text of scrapeWebsite, after .trim()
FALLBACK_LEN == 675

\* length of fallbackContent of initializeData, after .trim()
INIT_FALLBACK_LEN == 159

\* length of "\n\n=== PAGE: " plus " ===\n"
MARKER_LEN == 17
ELEMENT_MIN == 100
CONTENT_MIN == 200

\* the lengths of the four URLs of `pages`
pages == <<30, 35, 37, 46>>

---------------------------------------------------------------------------
\* Bounds of the model

\* scrapeWebsite() calls started in one run of the server
MaxBuilds == 2

\* how far above MAX_MESSAGE a chat message reaches
MaxOver == 1

\* most elements one selector matches in a document
MaxElems == 2

Slots == {1, 2}

\* lengths of a siteData.txt committed with the repository
CommittedLens == {36, MIN_CORPUS, MIN_CORPUS + 1}

\* lengths of the text extracted from a page that was fetched; the block of
\* the first page alone can be a corpus of exactly MIN_CORPUS characters
PageTextLens(p) ==
    IF p = 1 THEN {0, PAGE_MIN, PAGE_MIN + 1, MIN_CORPUS - MARKER_LEN - pages[1]}
             ELSE {PAGE_MIN, PAGE_MIN + 1}

---------------------------------------------------------------------------
\* Texts

Text(k, b, n) == [kind |-> k, blocks |-> b, len |-> n]

Missing == Text("missing", <<>>, 0)

EmptyText == Text("scraped", <<>>, 0)

Fallback == Text("fallback", <<>>, FALLBACK_LEN)

fallbackContent == Text("initfallback", <<>>, INIT_FALLBACK_LEN)

\* scrapedText += `\n\n=== PAGE: ${page} ===\n${text}`
AppendPage(t, p, n) ==
    Text("scraped", Append(t.blocks, [page |-> p, len |-> n]),
         t.len + MARKER_LEN + pages[p] + n)

---------------------------------------------------------------------------
\* The Corpus Store

existsSync(f) == f.kind # "missing"

readFileSync(f) == f

\* a write that other handlers can see half done
writeFileSync_partial(f, content) == [content EXCEPT !.len = content.len \div 2]

\* fs.writeFileSync inside writeFileSync: a synchronous call, over before any
\* other handler runs
writeFileSync(f, content) == content

unlinkSync(f) == Missing

\* what fs.writeFileSync (or mkdirSync before it) can leave behind when it
\* throws: the file as it was (the open failed), or the file truncated and
\* written in part (the write failed)
FailedWrites(f, content) ==
    {f, Text("partial", <<>>, 0), Text("partial", <<>>, content.len \div 2)}

\* writeFileSync with a catch block that logs and swallows the error
WriteThrows_swallowed(failed) == FALSE

\* `catch (error) { console.error(...); throw error; }` of writeFileSync:
\* whether the call throws, given whether fs.writeFileSync failed
WriteThrows(failed) == failed

---------------------------------------------------------------------------
\* Page Fetcher and Content Extractor

\* what one fetch of a page can do
FetchOutcomes(p) ==
    {[kind |-> k, len |-> 0] :
        k \in {"nonok", "fetchThrows", "timeout", "extractThrows"}}
    \cup {[kind |-> "ok", len |-> n] : n \in PageTextLens(p)}

\* how a call of scrapePage ends: by which return statement, or by throwing
Returned(via, n) == [threw |-> FALSE, via |-> via, len |-> n]

Thrown == [threw |-> TRUE, via |-> "throw", len |-> 0]

\* scrapePage with its catch block removed
scrapePage_nocatch(o) ==
    CASE o.kind = "nonok" -> Returned("notOk", 0)
      [] o.kind \in {"fetchThrows", "timeout", "extractThrows"} -> Thrown
      [] OTHER -> Returned("cleanText", o.len)

\* scrapePage(url): the length of the text it returns
scrapePage(o) ==
    CASE o.kind = "nonok" -> Returned("notOk", 0)         \* if (!res.ok)
      [] o.kind \in {"fetchThrows", "timeout", "extractThrows"}
            -> Returned("caught", 0)                      \* catch (error)
      [] OTHER -> Returned("cleanText", o.len)            \* return cleanText

---------------------------------------------------------------------------
\* Site Corpus Builder

\* `if (text.length > 50)`
Meaningful(n) == n > PAGE_MIN

\* one turn of `for (const page of pages)` with the text scrapePage returned
Accumulate(t, p, n) == IF Meaningful(n) THEN AppendPage(t, p, n) ELSE t

\* `if (scrapedText.length < 100)`: the text scrapeWebsite writes
Persisted(t) == IF t.len < MIN_CORPUS THEN Fallback ELSE t

\* a loop that starts the fetches of all the pages left at once
NextFetch_all(i) == (i + 1) .. Len(pages)

\* `for (const page of pages) { const text = await scrapePage(page); ... }`:
\* the fetches started once i pages have been attempted
NextFetch(i) == IF i < Len(pages) THEN {i + 1} ELSE {}

\* a build: where it is, who started it, the number of the page attempted
\* last, the text so far and the pages whose fetch is in flight
Idle(k) ==
    [pc |-> "idle", kind |-> k, i |-> 0, scrapedText |-> EmptyText,
     fetching |-> {}]

\* scrapeWebsite up to its first await: the fetch of the first page is started
Scraping(k) ==
    [pc |-> "scraping", kind |-> k, i |-> 0, scrapedText |-> EmptyText,
     fetching |-> NextFetch(0)]

---------------------------------------------------------------------------
\* Responses

NoMsg == [type |-> "none", n |-> 0]

\* what a handler sent: the HTTP status (0: nothing sent), the `status` field
\* of the JSON body, whether the body holds `answer` or `error`, and its text
Res(req, http, status, body) ==
    [req |-> req, http |-> http, status |-> status, key |-> "none",
     body |-> body, msg |-> NoMsg, read |-> FALSE, content |-> Missing,
     hasContent |-> FALSE, called |-> FALSE]

NoRes == Res("none", 0, "none", "none")

---------------------------------------------------------------------------
\* The Content Extractor: scrapePage from cheerio.load to cleanText
\*
\* A piece of text is its length as it stands in the document (`raw`, after
\* trim() for an element) and its length once every run of whitespace is
\* one space and the ends are trimmed (`norm`).  A document is, for every
\* selector, the texts of the elements it matches in document order, and
\* the text of <body>, scripts, styles and cookie banners removed.

contentSelectors ==
    <<"main", "[role=main]", ".main-content", "#main-content", ".content",
      "#content", ".page-content", ".container", "article", ".article",
      "section", ".section">>

Selectors == 1 .. Len(contentSelectors)

Piece(id, raw, norm) == [id |-> id, raw |-> raw, norm |-> norm]

\* trimmed texts of elements: one at the threshold, one just over it whose
\* whitespace shrinks, one that alone fills a buffer of CONTENT_MIN
ElemTexts ==
    {Piece("el", ELEMENT_MIN, ELEMENT_MIN),
     Piece("el", ELEMENT_MIN + 1, ELEMENT_MIN - 10),
     Piece("el", CONTENT_MIN - 1, CONTENT_MIN - 1)}

ElemLists == UNION {[1 .. k -> ElemTexts] : k \in 0 .. MaxElems}

\* the text of <body>: that of a nearly empty page, or one that holds
\* MaxElems elements and more
BodyTexts ==
    {Piece("body", 40, 30),
     Piece("body", MaxElems * CONTENT_MIN + 60, MaxElems * CONTENT_MIN + 20)}

Document(s1, l1, s2, l2, body) ==
    [sel |-> [s \in Selectors |->
                IF s = s1 THEN l1 ELSE IF s = s2 THEN l2 ELSE <<>>],
     body |-> body]

\* the documents in which at most two selectors match, their elements
\* taken from `lists`, the body holding at least the text of any element
Documents(lists) ==
    {d \in {Document(s1, l1, s2, l2, body) :
               s1 \in Selectors, s2 \in Selectors,
               l1 \in lists, l2 \in lists, body \in BodyTexts} :
        \A s \in Selectors : \A j \in 1 .. Len(d.sel[s]) :
            d.sel[s][j].raw <= d.body.raw}

NoDocument == [sel |-> [s \in Selectors |-> <<>>], body |-> Piece("none", 0, 0)]

\* `content`: the pieces appended, `seps` the number of " " appended
Content(of, seps, found) == [of |-> of, seps |-> seps, foundContent |-> found]

RECURSIVE RawLen(_)
RawLen(ps) == IF ps = <<>> THEN 0 ELSE Head(ps).raw + RawLen(Tail(ps))

RECURSIVE NormLen(_)
NormLen(ps) == IF ps = <<>> THEN 0 ELSE Head(ps).norm + NormLen(Tail(ps))

\* content.length
ContentLength(c) == RawLen(c.of) + c.seps

\* `if (text.length > 100)`
Qualifies(text) == text.raw > ELEMENT_MIN

\* elements.each(...): `content += text + " "; foundContent = true`
RECURSIVE Each(_, _)
Each(elements, c) ==
    IF elements = <<>> THEN c
    ELSE Each(Tail(elements),
              IF Qualifies(Head(elements))
                THEN Content(Append(c.of, Head(elements)), c.seps + 1, TRUE)
                ELSE c)

\* `for (const selector of contentSelectors)` from selector s on
RECURSIVE ScanSelectors(_, _, _)
ScanSelectors(d, s, c) ==
    IF s > Len(contentSelectors) THEN c
    ELSE IF Len(d.sel[s]) > 0
      THEN LET c1 == Each(d.sel[s], c)
           IN IF c1.foundContent THEN c1 ELSE ScanSelectors(d, s + 1, c1)
      ELSE ScanSelectors(d, s + 1, c)

\* the test with && in place of ||
UseBody_and(c) == ~c.foundContent /\ ContentLength(c) < CONTENT_MIN

\* `if (!foundContent || content.length < 200)`
UseBody(c) == ~c.foundContent \/ ContentLength(c) < CONTENT_MIN

\* `.replace(/\s+/g, " ").replace(/\n+/g, " ").trim()`: the pieces keep
\* their order, each normalized, one space between two of them
Normalize(c) ==
    [of |-> c.of,
     len |-> NormLen(c.of) + (IF Len(c.of) > 1 THEN Len(c.of) - 1 ELSE 0)]

\* scrapePage from `let content = ""` to `return cleanText`
ExtractText(d) ==
    LET c == ScanSelectors(d, 1, Content(<<>>, 0, FALSE))
    IN Normalize(IF UseBody(c) THEN Content(<<d.body>>, 0, c.foundContent) ELSE c)

NotExtracted == [of |-> <<>>, len |-> -1]

---------------------------------------------------------------------------
\* Startup

Init ==
    /\ file \in {Missing} \cup {Text("committed", <<>>, n) : n \in CommittedLens}
    /\ init = "start"
    /\ builds = [b \in Slots |-> Idle("none")]
    /\ nbuilds = 0
    /\ chat = "idle"
    /\ res = NoRes
    /\ html = NoDocument
    /\ cleanText = NotExtracted

\* `existingData.length > 100`: initializeData keeps the committed file
KeepsExisting(f) == existsSync(f) /\ readFileSync(f).len > MIN_CORPUS

\* initializeData() up to its return or to the first await of scrapeWebsite()
InitializeData ==
    /\ init = "start"
    /\ IF KeepsExisting(file)
         THEN /\ init' = "done"
              /\ UNCHANGED <<builds, nbuilds>>
         ELSE /\ init' = "building"
              /\ builds' = [builds EXCEPT ![1] = Scraping("init")]
              /\ nbuilds' = nbuilds + 1
    /\ res' = NoRes
    /\ UNCHANGED <<file, chat, html, cleanText>>

---------------------------------------------------------------------------
\* GET /debug

DebugResponse(f) ==
    IF ~existsSync(f)
      THEN Res("debug", 200, "error", "DATA_FILE not found")
      ELSE [Res("debug", 200, "success", "info") EXCEPT
                !.read = TRUE,
                !.content = readFileSync(f),
                !.hasContent = readFileSync(f).len > MIN_CORPUS]

Debug ==
    /\ init # "start"
    /\ res' = DebugResponse(file)
    /\ UNCHANGED <<file, init, builds, nbuilds, chat, html, cleanText>>

---------------------------------------------------------------------------
\* GET /rescrape and GET /force-refresh

\* the handler up to the first await of scrapeWebsite()
StartBuild(b, k) ==
    /\ init # "start"
    /\ nbuilds < MaxBuilds
    /\ builds[b].pc = "idle"
    /\ \A c \in Slots : c < b => builds[c].pc # "idle"
    /\ builds' = [builds EXCEPT ![b] = Scraping(k)]
    /\ nbuilds' = nbuilds + 1
    /\ res' = NoRes
    /\ UNCHANGED <<init, chat, html, cleanText>>

\* /rescrape deleting the store first, as /force-refresh does
Rescrape_deleting(b) ==
    /\ StartBuild(b, "rescrape")
    /\ file' = Missing

Rescrape(b) ==
    /\ StartBuild(b, "rescrape")
    /\ UNCHANGED file

\* `if (fs.existsSync(DATA_FILE)) fs.unlinkSync(DATA_FILE)`
ForceRefresh(b) ==
    /\ StartBuild(b, "force-refresh")
    /\ file' = IF existsSync(file) THEN unlinkSync(file) ELSE file

\* what the catch block of the caller of scrapeWebsite() does
BuildFailed(b) ==
    IF builds[b].kind = "init"
      THEN /\ file' = writeFileSync(file, fallbackContent)
           /\ init' = "done"
           /\ res' = NoRes
      ELSE /\ res' = Res(builds[b].kind, 500, "error", "message")
           /\ UNCHANGED <<file, init>>

\* one page of the loop: the fetch settles, the text is accumulated, the
\* 1 second delay passes and the next fetch is started
ScrapeStep(b) ==
    /\ builds[b].pc = "scraping"
    /\ builds[b].i < Len(pages)
    /\ \E o \in FetchOutcomes(builds[b].i + 1) :
         LET p == builds[b].i + 1
             r == scrapePage(o)
         IN IF r.threw
              THEN /\ builds' = [builds EXCEPT ![b] = Idle(builds[b].kind)]
                   /\ BuildFailed(b)
              ELSE /\ builds' = [builds EXCEPT
                          ![b].i = p,
                          ![b].scrapedText =
                              Accumulate(builds[b].scrapedText, p, r.len),
                          ![b].fetching = NextFetch(p)]
                   /\ res' = IF r.via = "cleanText" THEN NoRes
                             ELSE Res("scrapePage", 0, r.via, "empty string")
                   /\ UNCHANGED <<file, init>>
    /\ UNCHANGED <<nbuilds, chat, html, cleanText>>

\* the fallback, the write and the handler's response
WriteAndRespond(b) ==
    /\ file' = writeFileSync(file, Persisted(builds[b].scrapedText))
    /\ builds' = [builds EXCEPT ![b] = Idle(builds[b].kind)]
    /\ IF builds[b].kind = "init"
         THEN /\ init' = "done"
              /\ res' = NoRes
         ELSE /\ init' = init
              /\ res' = [Res(builds[b].kind, 200, "success", "done") EXCEPT
                            !.read = TRUE,
                            !.content = readFileSync(file')]
    /\ UNCHANGED <<nbuilds, chat, html, cleanText>>

\* after the last delay
FinishBuild(b) ==
    /\ builds[b].pc = "scraping"
    /\ builds[b].i = Len(pages)
    /\ WriteAndRespond(b)

\* The page loop await by await.
\* `const text = await scrapePage(page)` resumes: the text is accumulated
\* and `await new Promise(resolve => setTimeout(resolve, 1000))` starts
FetchSettles(b) ==
    /\ builds[b].pc = "scraping"
    /\ \E p \in builds[b].fetching : \E o \in FetchOutcomes(p) :
         LET r == scrapePage(o)
         IN IF r.threw
              THEN /\ builds' = [builds EXCEPT ![b] = Idle(builds[b].kind)]
                   /\ BuildFailed(b)
              ELSE /\ builds' = [builds EXCEPT
                          ![b].pc = "delaying",
                          ![b].i = p,
                          ![b].scrapedText =
                              Accumulate(builds[b].scrapedText, p, r.len),
                          ![b].fetching = builds[b].fetching \ {p}]
                   /\ res' = [Res("scrapePage", 0, r.via, "text") EXCEPT
                                 !.content = Text("page", <<>>, r.len)]
                   /\ UNCHANGED <<file, init>>
    /\ UNCHANGED <<nbuilds, chat, html, cleanText>>

\* the timer fires with pages left: the loop starts the next fetch
DelayElapses(b) ==
    /\ builds[b].pc = "delaying"
    /\ builds[b].i < Len(pages)
    /\ builds' = [builds EXCEPT
           ![b].pc = "scraping",
           ![b].fetching = builds[b].fetching \cup NextFetch(builds[b].i)]
    /\ res' = NoRes
    /\ UNCHANGED <<file, init, nbuilds, chat, html, cleanText>>

\* the timer fires after the last page: the loop ends
FinishAfterDelay(b) ==
    /\ builds[b].pc = "delaying"
    /\ builds[b].i = Len(pages)
    /\ WriteAndRespond(b)

\* after the last delay, with a store write that fails: writeFileSync
\* rethrows, scrapeWebsite has no catch, and the caller's catch block runs;
\* in initializeData that block writes fallbackContent, which can fail too,
\* leaving a rejected promise to `.catch(console.error)`
WriteFails(b) ==
    /\ builds[b].pc = "scraping"
    /\ builds[b].i = Len(pages)
    /\ builds' = [builds EXCEPT ![b] = Idle(builds[b].kind)]
    /\ \E f \in FailedWrites(file, Persisted(builds[b].scrapedText)) :
         IF ~WriteThrows(TRUE)
           THEN /\ file' = f
                /\ init' = IF builds[b].kind = "init" THEN "done" ELSE init
                /\ res' = IF builds[b].kind = "init" THEN NoRes
                          ELSE [Res(builds[b].kind, 200, "success", "done") EXCEPT
                                   !.read = existsSync(f), !.content = f]
         ELSE IF builds[b].kind = "init"
           THEN /\ file' \in {writeFileSync(f, fallbackContent)}
                               \cup FailedWrites(f, fallbackContent)
                /\ init' = "done"
                /\ res' = NoRes
           ELSE /\ file' = f
                /\ init' = init
                /\ res' = Res(builds[b].kind, 500, "error", "message")
    /\ UNCHANGED <<nbuilds, chat, html, cleanText>>

---------------------------------------------------------------------------
\* POST /chat

\* req.body.message: its JSON type ("undefined" when the body has none) and,
\* for a string or an array, its length (for a number, its value; for a
\* boolean, 1 for true)
Msg(t, n) == [type |-> t, n |-> n]

Messages ==
    {Msg("undefined", 0), Msg("null", 0), Msg("number", 0), Msg("number", 7),
     Msg("boolean", 0), Msg("boolean", 1), Msg("object", 0), Msg("array", 0)}
    \cup {Msg("string", n) : n \in {0, 1, MAX_MESSAGE}}
    \cup {Msg("string", n) : n \in MAX_MESSAGE + 1 .. MAX_MESSAGE + MaxOver}

\* `!message`
Falsy(m) ==
    \/ m.type \in {"undefined", "null"}
    \/ m.type \in {"number", "boolean", "string"} /\ m.n = 0

ChatRes(m, http, key, body) ==
    [Res("chat", http, "none", body) EXCEPT !.msg = m, !.key = key]

\* the limit off by one
TooLong_off(m) == m.n >= MAX_MESSAGE

\* `message.length > 500`
TooLong(m) == m.n > MAX_MESSAGE

\* the size check left out
TooShort_never(siteData) == FALSE

\* `siteData.length < 100`
TooShort(siteData) == siteData.len < MIN_CORPUS

\* the handler from its start to its first response or to the await of
\* openai.chat.completions.create
ChatSync(m, f) ==
    IF Falsy(m) \/ m.type # "string"
      THEN ChatRes(m, 400, "error", "Valid message is required")
    ELSE IF TooLong(m)
      THEN ChatRes(m, 400, "error", "Message too long")
    ELSE IF ~existsSync(f)
      THEN ChatRes(m, 200, "answer", "still loading")
    ELSE IF TooShort(readFileSync(f))
      THEN [ChatRes(m, 200, "answer", "not enough information") EXCEPT
                !.read = TRUE, !.content = readFileSync(f)]
    ELSE [ChatRes(m, 0, "none", "awaiting completion") EXCEPT
                !.read = TRUE, !.content = readFileSync(f), !.called = TRUE]

Chat(m) ==
    /\ init # "start"
    /\ chat = "idle"
    /\ res' = ChatSync(m, file)
    /\ chat' = IF res'.called THEN "awaiting" ELSE "idle"
    /\ UNCHANGED <<file, init, builds, nbuilds, html, cleanText>>

\* what the completion service can do with a request: answer with a text,
\* with no text, or with a body without `choices`, or fail with an error that
\* carries a status and possibly a message
Completions ==
    {[kind |-> k, status |-> 200, message |-> "none"] :
        k \in {"answer", "noContent", "noChoices"}}
    \cup {[kind |-> "error", status |-> st, message |-> msg] :
            st \in {429, 401, 500}, msg \in {"API key", "other", "none"}}

\* the catch block of the handler
ChatCatch(err) ==
    IF err.status = 429
      THEN ChatRes(NoMsg, 429, "error", "Too many requests")
    ELSE IF err.message = "none"          \* err.message.includes throws
      THEN Res("chat", 0, "uncaught", "TypeError")
    ELSE IF err.message = "API key"
      THEN ChatRes(NoMsg, 500, "error", "API configuration error")
    ELSE ChatRes(NoMsg, 500, "error", "temporarily unavailable")

\* the handler after the await
ChatAfter(c) ==
    CASE c.kind = "answer" -> ChatRes(NoMsg, 200, "answer", "generated")
      [] c.kind = "noContent" -> ChatRes(NoMsg, 200, "answer", "could not generate")
      [] c.kind = "noChoices" ->          \* completion.choices[0] throws
            ChatCatch([kind |-> "error", status |-> 0, message |-> "other"])
      [] OTHER -> ChatCatch(c)

ChatCompletion(c) ==
    /\ chat = "awaiting"
    /\ res' = ChatAfter(c)
    /\ chat' = "idle"
    /\ UNCHANGED <<file, init, builds, nbuilds, html, cleanText>>

---------------------------------------------------------------------------
\* The server

\* Two builds at a time, with requests to /debug arriving at any moment
Next ==
    \/ InitializeData
    \/ Debug
    \/ \E b \in Slots : Rescrape(b)
    \/ \E b \in Slots : ForceRefresh(b)
    \/ \E b \in Slots : ScrapeStep(b)
    \/ \E b \in Slots : FinishBuild(b)

Spec == Init /\ [][Next]_vars

\* One build at a time, with requests to /debug, every kind of request to
\* /chat and every behaviour of the completion service
NextChat ==
    \/ InitializeData
    \/ Debug
    \/ Rescrape(1)
    \/ ForceRefresh(1)
    \/ ScrapeStep(1)
    \/ FinishBuild(1)
    \/ \E m \in Messages : Chat(m)
    \/ \E c \in Completions : ChatCompletion(c)

SpecChat == Init /\ [][NextChat]_vars

\* One build at a time, its page loop await by await, with requests to /debug
NextPages ==
    \/ InitializeData
    \/ Debug
    \/ Rescrape(1)
    \/ ForceRefresh(1)
    \/ FetchSettles(1)
    \/ DelayElapses(1)
    \/ FinishAfterDelay(1)

SpecPages == Init /\ [][NextPages]_vars

\* The Content Extractor alone, over the documents of Documents(ElemLists)
InitExtract ==
    /\ html \in Documents(ElemLists)
    /\ cleanText = NotExtracted
    /\ file = Missing
    /\ init = "start"
    /\ builds = [b \in Slots |-> Idle("none")]
    /\ nbuilds = 0
    /\ chat = "idle"
    /\ res = NoRes

Extract ==
    /\ cleanText = NotExtracted
    /\ cleanText' = ExtractText(html)
    /\ UNCHANGED <<file, init, builds, nbuilds, chat, res, html>>

NextExtract == Extract

SpecExtract == InitExtract /\ [][NextExtract]_vars

---------------------------------------------------------------------------
\* The older variant of the server (src/unnamed/part_000): the same fetcher
\* and page loop, no fallback text, no /force-refresh

\* `if (!fs.existsSync(...)) scrape; else if (existingData.length < 100) scrape`
KeepsExistingPart000(f) == existsSync(f) /\ ~(readFileSync(f).len < MIN_CORPUS)

\* initializeData of part_000, run once when the module is loaded
InitializeDataPart000 ==
    /\ init = "start"
    /\ IF KeepsExistingPart000(file)
         THEN /\ init' = "done"
              /\ UNCHANGED <<builds, nbuilds>>
         ELSE /\ init' = "building"
              /\ builds' = [builds EXCEPT ![1] = Scraping("init")]
              /\ nbuilds' = nbuilds + 1
    /\ res' = NoRes
    /\ UNCHANGED <<file, chat, html, cleanText>>

\* scrapeWebsite of part_000 after the last delay: the scraped text is
\* written as it is; /rescrape answers without reading the file back
FinishBuildPart000(b) ==
    /\ builds[b].pc = "scraping"
    /\ builds[b].i = Len(pages)
    /\ file' = writeFileSync(file, builds[b].scrapedText)
    /\ builds' = [builds EXCEPT ![b] = Idle(builds[b].kind)]
    /\ IF builds[b].kind = "init"
         THEN init' = "done" /\ res' = NoRes
         ELSE init' = init /\ res' = Res(builds[b].kind, 200, "success", "done")
    /\ UNCHANGED <<nbuilds, chat, html, cleanText>>

NextPart000 ==
    \/ InitializeDataPart000
    \/ Rescrape(1)
    \/ ScrapeStep(1)
    \/ FinishBuildPart000(1)

SpecPart000 == Init /\ [][NextPart000]_vars

---------------------------------------------------------------------------
\* One build at a time whose store write may fail, with requests to /debug
NextWrite ==
    \/ InitializeData
    \/ Debug
    \/ Rescrape(1)
    \/ ForceRefresh(1)
    \/ ScrapeStep(1)
    \/ FinishBuild(1)
    \/ WriteFails(1)

SpecWrite == Init /\ [][NextWrite]_vars

---------------------------------------------------------------------------
\* Properties

RECURSIVE BlocksLen(_)
BlocksLen(bs) ==
    IF bs = <<>> THEN 0
    ELSE MARKER_LEN + pages[Head(bs).page] + Head(bs).len + BlocksLen(Tail(bs))

\* t is a corpus as one writer wrote it, from its first character to its
\* last: a committed file, one of the two fallback texts, or the blocks of
\* one build in the order of `pages`
Whole(t) ==
    \/ t.kind = "committed"
    \/ t = Fallback
    \/ t = fallbackContent
    \/ /\ t.kind = "scraped"
       /\ t.len = BlocksLen(t.blocks)
       /\ \A j \in 1 .. Len(t.blocks) - 1 : t.blocks[j].page < t.blocks[j + 1].page

Running(b, kinds) == builds[b].pc = "scraping" /\ builds[b].kind \in kinds

\* the request was a well-formed one: a string of 1 to MAX_MESSAGE characters
ValidMsg(m) == m.type = "string" /\ m.n >= 1 /\ m.n <= MAX_MESSAGE

ForceRefreshStarts ==
    \E b \in Slots : builds[b].pc = "idle" /\ builds'[b] = Scraping("force-refresh")

C3_Original ==
    file.kind \in {"scraped", "fallback"} => file.len >= FALLBACK_LEN

\* C4 as stated: /chat calls the completion service only with a corpus of
\* more than MIN_CORPUS characters.
C4_Original ==
    (res.req = "chat" /\ res.called) => res.content.len > MIN_CORPUS

\* C5: a /chat request whose message is missing, not a string, empty or
\* longer than MAX_MESSAGE is answered 400 with an error body, without the
\* store being read or the completion service called; and no other request
\* is answered 400.
C5_Validation ==
    res.req = "chat" =>
      /\ (res.msg # NoMsg /\ ~ValidMsg(res.msg)) =>
            /\ res.http = 400 /\ res.key = "error"
            /\ ~res.read /\ ~res.called /\ chat = "idle"
      /\ res.http = 400 => (res.msg # NoMsg /\ ~ValidMsg(res.msg))

\* C5 witness: a message of MAX_MESSAGE + 1 characters was rejected.
C5_Witness ==
    /\ res.req = "chat" /\ res.http = 400
    /\ res.msg = Msg("string", MAX_MESSAGE + 1)

\* C6: a well-formed /chat request is answered 200 with a placeholder answer
\* and no error, without the completion service being called, when the
\* store is missing ("still loading") and when it holds fewer than
\* MIN_CORPUS characters ("not enough information").
C6_Placeholder ==
    (res.req = "chat" /\ ValidMsg(res.msg)) =>
      /\ ~existsSync(file) =>
            /\ res.http = 200 /\ res.key = "answer" /\ res.body = "still loading"
            /\ ~res.read /\ ~res.called /\ chat = "idle"
      /\ (existsSync(file) /\ file.len < MIN_CORPUS) =>
            /\ res.http = 200 /\ res.key = "answer"
            /\ res.body = "not enough information"
            /\ ~res.called /\ chat = "idle"

\* C6 witness: a well-formed request met a store file under the threshold.
C6_Witness ==
    /\ res.req = "chat" /\ ValidMsg(res.msg)
    /\ existsSync(file) /\ file.len < MIN_CORPUS
    /\ res.body = "not enough information"

\* C7 as stated: whatever fails inside the /chat handler, the request ends
\* with one structured error response, never with an exception that leaves
\* the handler.
C7_Original ==
    res.req = "chat" =>
      /\ res.status # "uncaught"
      /\ ~res.called => (res.http \in {200, 400, 429, 500} /\ res.key \in {"answer", "error"})

\* C8 as stated: a /debug that follows a successful /force-refresh at once
\* answers status "success" with hasContent true.
C8_Original ==
    [][(res.req = "force-refresh" /\ res.status = "success" /\ res'.req = "debug")
         => (res'.status = "success" /\ res'.hasContent)]_vars

\* C9 as stated: /debug and /chat answer a store file too short to be usable
\* exactly as they answer a missing one.
C9_Original ==
    (existsSync(file) /\ file.len <= MIN_CORPUS) =>
      /\ res.req = "debug" => res = DebugResponse(Missing)
      /\ (res.req = "chat" /\ ValidMsg(res.msg)) => res = ChatSync(res.msg, Missing)

\* C10: a page that fails never ends the build: a build that is scraping
\* goes on to its next page whatever the fetch did, leaves the store alone
\* until every page was attempted and then writes it once; no /rescrape or
\* /force-refresh answers an error and initializeData never falls back.
C10_NeverAborted ==
    /\ [](res.req \in {"rescrape", "force-refresh"} => res.status = "success")
    /\ [](file # fallbackContent)
    /\ [][\A b \in Slots :
            (builds[b].pc = "scraping" /\ builds'[b] # builds[b]) =>
              IF builds[b].i < Len(pages)
                THEN /\ builds'[b].pc = "scraping"
                     /\ builds'[b].i = builds[b].i + 1
                     /\ file' = file
                ELSE /\ builds'[b].pc = "idle"
                     /\ file'.kind \in {"scraped", "fallback"}]_vars

\* C10 witness: the fetch of the last page threw, scrapePage returned the
\* empty string, and the build, with no page scraped, is about to write.
C10_Witness ==
    \E b \in Slots :
      /\ Running(b, {"init", "rescrape", "force-refresh"})
      /\ builds[b].i = Len(pages)
      /\ builds[b].scrapedText = EmptyText
      /\ res.req = "scrapePage" /\ res.status = "caught"

\* a step in which build b leaves scrapeWebsite without the store holding
\* the text it had to write
WriteFailedStep(b) ==
    /\ builds[b].pc = "scraping" /\ builds[b].i = Len(pages)
    /\ builds'[b].pc = "idle"
    /\ file' # Persisted(builds[b].scrapedText)

\* C11: when the store write of a build fails, the /rescrape or
\* /force-refresh request that started the build answers HTTP 500 with
\* {status: "error", message}, never status "success"; and a request that
\* answers "success" has read back the text its build wrote.
C11_WriteFailure ==
    /\ [][\A b \in Slots :
            (WriteFailedStep(b) /\ builds[b].kind # "init") =>
               /\ res'.req = builds[b].kind
               /\ res'.http = 500 /\ res'.status = "error"]_vars
    /\ []((res.req \in {"rescrape", "force-refresh"} /\ res.status = "success")
            => (res.http = 200 /\ res.read /\ Whole(res.content)))

\* C11 witness: a /rescrape whose write failed part-way answered 500 and the
\* store holds the truncated text.
C11_Witness ==
    /\ res.req = "rescrape" /\ res.http = 500 /\ res.status = "error"
    /\ file.kind = "partial" /\ file.len > 0

\* C12: at process start initializeData runs the Corpus Builder exactly when
\* the store is absent or holds no more than 100 characters; when it holds a
\* usable corpus, no build is started and the store is left as it is.
C12_Original ==
    [][init = "start" =>
         /\ (builds'[1].pc = "scraping")
               <=> ~(existsSync(file) /\ readFileSync(file).len > MIN_CORPUS)
         /\ (existsSync(file) /\ readFileSync(file).len > MIN_CORPUS)
               => (file' = file /\ \A b \in Slots : builds'[b].pc = "idle")]_vars

\* C13: within one build the pages are fetched one after another in list
\* order: at most one fetch is in flight, it is the fetch of the page after
\* the last one attempted, a fetch is started only when the build starts or
\* when the delay after the previous page has elapsed, and the store is
\* written only after the delay that follows the last page.
C13_Sequential ==
    /\ [](\A b \in Slots :
            /\ Cardinality(builds[b].fetching) <= 1
            /\ builds[b].fetching # {} =>
                  /\ builds[b].pc = "scraping"
                  /\ builds[b].fetching = {builds[b].i + 1})
    /\ [][\A b \in Slots :
            (builds'[b].fetching \ builds[b].fetching # {}) =>
               /\ builds[b].fetching = {}
               /\ \/ builds[b].pc = "idle" /\ builds'[b].i = 0
                  \/ builds[b].pc = "delaying" /\ builds'[b].i = builds[b].i]_vars
    /\ [][(file' # file /\ existsSync(file')) =>
            \E b \in Slots :
               /\ builds[b].pc = "delaying" /\ builds'[b].pc = "idle"
               /\ builds[b].i = Len(pages)]_vars

\* C13 witness: the fetch of the last page is in flight after three pages
\* and three delays.
C13_Witness ==
    /\ builds[1].pc = "scraping"
    /\ builds[1].i = Len(pages) - 1
    /\ builds[1].fetching = {Len(pages)}

\* the blocks of text t that carry the marker of page p
BlocksOf(t, p) == {j \in 1 .. Len(t.blocks) : t.blocks[j].page = p}

\* the pages of the blocks of t come in the order of `pages`
InListOrder(t) ==
    \A j \in 1 .. Len(t.blocks) - 1 : t.blocks[j].page < t.blocks[j + 1].page

\* scrapePage has just returned a text for page builds[1].i of the build in
\* slot 1: the text so far has a block for that page, holding that text,
\* exactly when the text exceeds 50 characters
PageCounted ==
    (res.req = "scrapePage" /\ builds[1].pc = "delaying") =>
       LET t == builds[1].scrapedText
           p == builds[1].i
           n == res.content.len
       IN /\ (BlocksOf(t, p) # {}) <=> (n > PAGE_MIN)
          /\ \A j \in BlocksOf(t, p) : t.blocks[j].len = n
          /\ Cardinality(BlocksOf(t, p)) <= 1
          /\ \A q \in p + 1 .. Len(pages) : BlocksOf(t, q) = {}
          /\ InListOrder(t)

\* C14: after any build the persisted corpus holds a page-marker block for a
\* configured URL exactly when that URL's text exceeded 50 characters in this
\* build, the blocks in list order: each returned text is counted so, and
\* the text persisted at the end of the build holds the blocks counted.
C14_Original ==
    /\ []PageCounted
    /\ [][\A b \in Slots :
            (builds[b].pc = "delaying" /\ builds'[b].pc = "idle") =>
               /\ existsSync(file')
               /\ readFileSync(file').blocks = builds[b].scrapedText.blocks]_vars

\* the selectors of document d that match an element whose trimmed text
\* exceeds ELEMENT_MIN characters
Contributing(d) ==
    {s \in Selectors : \E j \in 1 .. Len(d.sel[s]) : d.sel[s][j].raw > ELEMENT_MIN}

\* the elements of selector s whose text exceeds ELEMENT_MIN, in document order
Contributed(d, s) == SelectSeq(d.sel[s], LAMBDA e : e.raw > ELEMENT_MIN)

\* the whitespace-normalized text of the whole body of d
BodyText(d) == [of |-> <<d.body>>, len |-> d.body.norm]

\* the characters accumulated from selector s: each contributed text and the
\* space that follows it
Accumulated(d, s) == RawLen(Contributed(d, s)) + Len(Contributed(d, s))

====
